---- MODULE Spec2Model ----
(***************************************************************************)
(* Cold-outreach engine: one campaign's lead store (the SQLite table       *)
(* leads), the HTTP handlers of server.py that mutate it, and the batch    *)
(* dispatchers (server.py run_campaign, main.py main, scripts/main.py      *)
(* main) that send to it; then the routes of server.py from the request to *)
(* the response, over the tables of two campaigns, and the load action.    *)
(*                                                                         *)
(* Every handler opens its own sqlite3 connection.  A SELECT runs in       *)
(* autocommit mode; the implicit transaction starts at the first UPDATE /  *)
(* INSERT / DELETE and ends at commit().  So a handler that SELECTs and    *)
(* then UPDATEs is two atomic steps, the read and the write, and other     *)
(* connections may commit between them.                                    *)
(***************************************************************************)
EXTENDS Integers, Sequences, FiniteSets, TLC

VARIABLES
    leads,      \* the leads table: email -> row (present or not)
    now,        \* the wall clock read by time.ctime()
    http,       \* request thread -> the handler it is in and its locals
    disp,       \* dispatcher process -> its position and locals
    nreq,       \* number of tracking requests received so far
    accepted,   \* history: email -> tracking events committed on its row
    outbox,     \* history: the transmissions handed to the mail transport
    other,      \* the leads table of a second configured campaign
    web,        \* request thread -> the request it serves, from the route to
                \* the response, and the last exchange it completed
    imp,        \* the import process (the load action of the CLI)
    details,    \* the lead_details table: the form submissions stored
    admin,      \* the operator's request to a management route and the
                \* transaction it has open
    schema,     \* campaign -> what its database file holds of the schema
    boot,       \* the start-up of the server process
    client      \* a tracking event a mail client sends while the server starts

\* what the tracking routes, the importer and the dispatchers never touch
back == <<details, admin, schema, boot, client>>

\* what the processes of the first three scenes never touch
front == <<other, web, imp, back>>

vars == <<leads, now, http, disp, nreq, accepted, outbox, other, web, imp,
          details, admin, schema, boot, client>>

----------------------------------------------------------------------------
(* Bounds of the model *)

MaxTime == 2        \* the clock runs 1..MaxTime
MaxRequests == 3    \* tracking requests received in one behaviour

Emails == {"a@x.com", "b@x.com", "c@x.com"}
Threads == {"t1", "t2"}
Runners == {"r1"}

----------------------------------------------------------------------------
(* Values *)

NULL == 0                       \* SQL NULL in a timestamp column
NoTemplate == ""                \* SQL NULL in sent_template
NoHash == <<>>                  \* SQL NULL in hash / a missing parameter
NoNotes == ""                   \* SQL NULL in notes
Template == "email.html"

Statuses == {"gray", "yellow", "green", "blue", "red"}
Decided == {"green", "red", "blue"}

hash_email(email) == <<"sha256", email>>

Tokens == {hash_email(e) : e \in Emails}

Row(st, ts, h, ots, sent, cnt, lits, tmpl) ==
    [present |-> TRUE, status |-> st, timestamp |-> ts, hash |-> h,
     opened_timestamp |-> ots, email_sent |-> sent, interact_count |-> cnt,
     last_interact_timestamp |-> lits, sent_template |-> tmpl,
     notes |-> NoNotes]

NoRow ==
    [present |-> FALSE, status |-> "", timestamp |-> NULL, hash |-> NoHash,
     opened_timestamp |-> NULL, email_sent |-> 0, interact_count |-> 0,
     last_interact_timestamp |-> NULL, sent_template |-> NoTemplate,
     notes |-> NoNotes]

\* INSERT INTO leads (...) VALUES (email, first_name, 'gray', ctime, hash, 0, 0, NULL)
NewRow(email, t) ==
    Row("gray", t, hash_email(email), NULL, 0, 0, NULL, NoTemplate)

\* SELECT ... FROM leads WHERE hash = ? ; fetchone()
RowsByHash(tok) == {e \in Emails : leads[e].present /\ leads[e].hash = tok}

\* UPDATE leads SET ... WHERE email = ? : no row, no change
UpdateRow(email, new) ==
    IF leads[email].present THEN [leads EXCEPT ![email] = new] ELSE leads

----------------------------------------------------------------------------
(* Campaigns, requests and responses *)

\* the campaigns of config.yaml: campaign_managers is keyed by their names.
\* leads is the table of "poland", other the table of "de".
Campaigns == {"poland", "de"}

\* request.args.get("campaign", "poland")
DefaultCampaign == "poland"

NoCampaign == ""                \* no campaign parameter / no manager (None)

\* the values the campaign parameter of a request takes
CampaignArgs == Campaigns \cup {NoCampaign, "nosuch"}

\* get_campaign_manager: the manager (here: its name), or None
get_campaign_manager(campaign_name) ==
    IF campaign_name = NoCampaign \/ campaign_name \notin Campaigns
      THEN NoCampaign
      ELSE campaign_name

\* the table behind manager.get_db_path()
Store(c) == IF c = DefaultCampaign THEN leads ELSE other

\* a URL: its path, and of its query string the campaign it begins with
\* (if it begins with one) and the hash parameter
Url(path, campaign, hash) ==
    [path |-> path, campaign |-> campaign, hash |-> hash]

NoUrl == Url("", NoCampaign, NoHash)            \* no url parameter
SiteUrl == Url("site", NoCampaign, NoHash)      \* a page of the company site
LandingPage == Url("landing", NoCampaign, NoHash)   \* manager.landing_page

\* a destination that starts with
\* https://nma.themysticaroma.com/green?campaign=<c>
MarkerUrl(c, email) == Url("green", c, hash_email(email))

\* destination.startswith(green_url), green_url built from campaign_name
IsMarker(destination, campaign_name) ==
    destination.path = "green" /\ destination.campaign = campaign_name

Endpoints == {"track_open", "track_link", "green", "red"}

Request(endpoint, hash, url, campaign) ==
    [endpoint |-> endpoint, hash |-> hash, url |-> url, campaign |-> campaign]

NoRequest == Request("", NoHash, NoUrl, NoCampaign)

\* main.py send_email: the target of the "interested" link of the email
\* sent to a lead of campaign c
green_target_url(c, email) == Url("green", NoCampaign, hash_email(email))

\* main.py send_email: the tracked "interested" link put into the email
green_url(c, email) ==
    Request("track_link", hash_email(email), green_target_url(c, email),
            NoCampaign)

\* main.py send_email: the tracked link to the company site
company_link(c, email) ==
    Request("track_link", hash_email(email), SiteUrl, NoCampaign)

LinkKinds == {"green_url", "company_link"}

LinkOf(kind, c, email) ==
    IF kind = "green_url" THEN green_url(c, email) ELSE company_link(c, email)

Response(status, body, location) ==
    [status |-> status, body |-> body, location |-> location]

NoResponse == Response(0, "", NoUrl)
Pixel == Response(200, "gif", NoUrl)            \* the 1x1 GIF, image/gif
EmptyOk == Response(200, "", NoUrl)             \* return "", 200
InvalidRequest == Response(400, "Invalid request", NoUrl)
LeadNotFound == Response(404, "Lead not found", NoUrl)
ServerError == Response(500, "Internal Server Error", NoUrl)
UnsubscribedPage == Response(200, "Unsubscribed", NoUrl)
Redirect(destination) == Response(302, "", destination)

\* the lead a click is made by, as it was when the link was clicked
NoSnap == [email |-> "", status |-> "", count |-> 0]

IdleWeb ==
    [pc |-> "idle", req |-> NoRequest, origin |-> NoCampaign,
     store |-> NoCampaign, found |-> FALSE, email |-> "", status |-> "",
     opened |-> NULL, count |-> 0, t0 |-> NULL, notices |-> 0,
     followed |-> FALSE, snap |-> NoSnap, res |-> NoResponse]

IdleImport ==
    [pc |-> "idle", variant |-> "", csv |-> <<>>, existing |-> {},
     result |-> ""]

\* the dashboard of a campaign, where the management routes redirect to
DashboardUrl(campaign) == Url("dashboard", campaign, NoHash)

\* request.form.get("status") of a form without a status field: None, which
\* the UPDATE stores as NULL
NoStatus == "None"

\* the lead and the lead_details rows a transaction found when it began
NoBefore == [lead |-> NoRow, details |-> {}]

\* the operator's connection: the statement it is at, the statements it has
\* executed and not committed, and the response of its last request
IdleAdmin ==
    [pc |-> "idle", email |-> "", campaign |-> NoCampaign, pending |-> {},
     before |-> NoBefore, outcome |-> "", res |-> NoResponse]

\* what a campaign's database file holds: nothing, a leads table created
\* before the hash column existed, or the tables and columns of init_db
Schemas == {"none", "legacy", "current"}

\* the server process: where its start-up is, the secrets of its
\* environment, the managers whose init_db is still to run, and the schema
\* each database file had when the process started
Serving ==
    [pc |-> "serving", smtp |-> TRUE, dashboard |-> TRUE, todo |-> {},
     found |-> [c \in Campaigns |->
                  [schema |-> "current", rows |-> [e \in Emails |-> NoRow]]]]

----------------------------------------------------------------------------
(* Request threads: the handlers of server.py on the table of one          *)
(* campaign, from the SELECT on.  Their responses, the notification mail   *)
(* of /green and /red and the choice of the campaign are in the routes     *)
(* further down.                                                           *)

IdleReq ==
    [pc |-> "idle", email |-> "", status |-> "", opened |-> NULL,
     count |-> 0, dest |-> "", t0 |-> NULL]

IdleRunner ==
    [pc |-> "idle", variant |-> "", todo |-> {}, email |-> "",
     found |-> FALSE, status |-> "", count |-> 0, ret |-> FALSE,
     failed |-> {}, succeeded |-> {}]

Init ==
    /\ leads = [e \in Emails |-> NoRow]
    /\ now = 1
    /\ http = [t \in Threads |-> IdleReq]
    /\ disp = [r \in Runners |-> IdleRunner]
    /\ nreq = 0
    /\ accepted = [e \in Emails |-> 0]
    /\ outbox = {}
    /\ other = [e \in Emails |-> NoRow]
    /\ web = [t \in Threads |-> IdleWeb]
    /\ imp = IdleImport
    /\ details = {}
    /\ admin = IdleAdmin
    /\ schema = [c \in Campaigns |-> "current"]
    /\ boot = Serving
    /\ client = "none"

\* the clock advances
Tick ==
    /\ now < MaxTime
    /\ now' = now + 1
    /\ UNCHANGED <<leads, http, disp, nreq, accepted, outbox, front>>

\* track_open, up to fetchone(): the SELECT by stored hash
TrackOpenSelect(t, tok) ==
    /\ http[t].pc = "idle"
    /\ nreq < MaxRequests
    /\ nreq' = nreq + 1
    /\ IF RowsByHash(tok) = {}
         THEN http' = http
         ELSE \E e \in RowsByHash(tok) :
                http' = [http EXCEPT ![t] =
                    [pc |-> "open_update", email |-> e,
                     status |-> leads[e].status,
                     opened |-> leads[e].opened_timestamp,
                     count |-> leads[e].interact_count,
                     dest |-> "", t0 |-> now]]
    /\ UNCHANGED <<leads, now, disp, accepted, outbox, front>>

\* an open handler that treats every open as the first
OpenedRowAlways(row, opened, count, ct) ==
    [row EXCEPT !.status = "yellow", !.opened_timestamp = ct,
                !.interact_count = count + 1,
                !.last_interact_timestamp = ct]

\* the row track_open writes: new_count from the SELECTed count
OpenedRow(row, opened, count, ct) ==
    IF opened = NULL
      THEN [row EXCEPT !.status = "yellow", !.opened_timestamp = ct,
                       !.interact_count = count + 1,
                       !.last_interact_timestamp = ct]
      ELSE [row EXCEPT !.interact_count = count + 1,
                       !.last_interact_timestamp = ct]

\* track_open, the UPDATE and commit()
TrackOpenUpdate(t) ==
    /\ http[t].pc = "open_update"
    /\ \E ct \in http[t].t0 .. now :
         LET e == http[t].email IN
         /\ leads' = UpdateRow(e, OpenedRow(leads[e], http[t].opened,
                                            http[t].count, ct))
         /\ accepted' = IF leads[e].present
                          THEN [accepted EXCEPT ![e] = @ + 1]
                          ELSE accepted
    /\ http' = [http EXCEPT ![t] = IdleReq]
    /\ UNCHANGED <<now, disp, nreq, outbox, front>>

\* destinations of a tracked link: one that starts with the campaign's
\* green_url (server.py:245-246), and any other
DestKinds == {"marker", "generic"}

\* track_link, up to fetchone(): the SELECT by stored hash
TrackLinkSelect(t, tok, dest) ==
    /\ http[t].pc = "idle"
    /\ nreq < MaxRequests
    /\ nreq' = nreq + 1
    /\ IF RowsByHash(tok) = {}
         THEN http' = http
         ELSE \E e \in RowsByHash(tok) :
                http' = [http EXCEPT ![t] =
                    [pc |-> "link_update", email |-> e,
                     status |-> leads[e].status,
                     opened |-> NULL,
                     count |-> leads[e].interact_count,
                     dest |-> dest, t0 |-> now]]
    /\ UNCHANGED <<leads, now, disp, accepted, outbox, front>>

\* a click handler without the red branch: every click that is not on the
\* marker link makes the lead yellow
ClickedRowYellow(row, dest, status, count, ct) ==
    IF dest = "marker"
      THEN [row EXCEPT !.status = "green", !.interact_count = count + 1,
                       !.last_interact_timestamp = ct]
      ELSE [row EXCEPT !.status = "yellow", !.interact_count = count + 1,
                       !.last_interact_timestamp = ct]

\* a click handler that writes the status it read back with the count
ClickedRowRestores(row, dest, status, count, ct) ==
    IF dest = "marker"
      THEN [row EXCEPT !.status = "green", !.interact_count = count + 1,
                       !.last_interact_timestamp = ct]
      ELSE [row EXCEPT !.status = IF status # "red" THEN "yellow" ELSE "red",
                       !.interact_count = count + 1,
                       !.last_interact_timestamp = ct]

\* the row track_link writes: the branch is chosen by the destination and
\* by the status the SELECT returned
ClickedRow(row, dest, status, count, ct) ==
    IF dest = "marker"
      THEN [row EXCEPT !.status = "green", !.interact_count = count + 1,
                       !.last_interact_timestamp = ct]
      ELSE IF status # "red"
        THEN [row EXCEPT !.status = "yellow", !.interact_count = count + 1,
                         !.last_interact_timestamp = ct]
        ELSE [row EXCEPT !.interact_count = count + 1,
                         !.last_interact_timestamp = ct]

\* track_link, the UPDATE and commit()
TrackLinkUpdate(t) ==
    /\ http[t].pc = "link_update"
    /\ \E ct \in http[t].t0 .. now :
         LET e == http[t].email IN
         /\ leads' = UpdateRow(e, ClickedRow(leads[e], http[t].dest,
                                   http[t].status, http[t].count, ct))
         /\ accepted' = IF leads[e].present
                          THEN [accepted EXCEPT ![e] = @ + 1]
                          ELSE accepted
    /\ http' = [http EXCEPT ![t] = IdleReq]
    /\ UNCHANGED <<now, disp, nreq, outbox, front>>

\* /green and /red scan every row and compare the recomputed hash
RowsByComputedHash(tok) ==
    {e \in Emails : leads[e].present /\ hash_email(e) = tok}

\* /green (colour = "green") and /red (colour = "red"), up to the match
ColourSelect(t, tok, colour) ==
    /\ http[t].pc = "idle"
    /\ RowsByComputedHash(tok) # {}
    /\ \E e \in RowsByComputedHash(tok) :
         http' = [http EXCEPT ![t] =
             [pc |-> "colour_update", email |-> e, status |-> colour,
              opened |-> NULL, count |-> 0, dest |-> "", t0 |-> now]]
    /\ UNCHANGED <<leads, now, disp, nreq, accepted, outbox, front>>

\* /green and /red, the UPDATE and commit()
ColourUpdate(t) ==
    /\ http[t].pc = "colour_update"
    /\ \E ct \in http[t].t0 .. now :
         LET e == http[t].email IN
         leads' = UpdateRow(e, [leads[e] EXCEPT !.status = http[t].status,
                                                !.timestamp = ct])
    /\ http' = [http EXCEPT ![t] = IdleReq]
    /\ UNCHANGED <<now, disp, nreq, accepted, outbox, front>>

\* the status values the move_lead form can carry
MoveInputs == Statuses \cup {"other"}

\* move_lead: one UPDATE and commit()
MoveLead(email, new_status) ==
    /\ leads[email].present
    /\ leads' = UpdateRow(email, [leads[email] EXCEPT !.status = new_status,
                                                      !.timestamp = now])
    /\ UNCHANGED <<now, http, disp, nreq, accepted, outbox, front>>

\* delete_lead: DELETE FROM leads WHERE email = ? and commit()
DeleteLead(email) ==
    /\ leads[email].present
    /\ leads' = [leads EXCEPT ![email] = NoRow]
    /\ accepted' = [accepted EXCEPT ![email] = 0]
    /\ UNCHANGED <<now, http, disp, nreq, outbox, front>>

\* the annotation the operator types into the notes field of the dashboard
Notes == {"called"}

\* a save of the notes that also files the lead as manually contacted
NotedRowContacted(row, notes) ==
    [row EXCEPT !.notes = notes, !.status = "blue"]

\* the row update_notes writes: UPDATE leads SET notes = ?
NotedRow(row, notes) == [row EXCEPT !.notes = notes]

\* update_notes: one UPDATE and commit()
UpdateNotes(email, notes) ==
    /\ leads' = UpdateRow(email, NotedRow(leads[email], notes))
    /\ UNCHANGED <<now, http, disp, nreq, accepted, outbox, front>>

\* load_csv_to_db: every email of the file that is not in the table yet is
\* inserted, the others are skipped
LoadCsv(csv) ==
    /\ \E e \in csv : ~leads[e].present
    /\ leads' = [e \in Emails |->
                   IF e \in csv /\ ~leads[e].present
                     THEN NewRow(e, now) ELSE leads[e]]
    /\ UNCHANGED <<now, http, disp, nreq, accepted, outbox, front>>

\* server.py init_db against an existing table: the three UPDATEs that
\* replace NULLs (email_sent and interact_count are never NULL in a row
\* inserted by load_csv_to_db)
InitDb ==
    /\ \E e \in Emails :
         leads[e].present /\ leads[e].last_interact_timestamp = NULL
    /\ leads' = [e \in Emails |->
                   IF leads[e].present
                        /\ leads[e].last_interact_timestamp = NULL
                     THEN [leads[e] EXCEPT !.last_interact_timestamp = now]
                     ELSE leads[e]]
    /\ UNCHANGED <<now, http, disp, nreq, accepted, outbox, front>>

----------------------------------------------------------------------------
(* The routes of server.py, from the request to the response.  A request   *)
(* names its campaign; the handler works on that campaign's table.         *)

\* a lookup that searches the tables of all campaigns
RowsByHashAnywhere(c, tok) ==
    {e \in Emails : \E d \in Campaigns :
       Store(d)[e].present /\ Store(d)[e].hash = tok}

\* SELECT ... FROM leads WHERE hash = ? on the table of campaign c
RowsByHashIn(c, tok) ==
    {e \in Emails : Store(c)[e].present /\ Store(c)[e].hash = tok}

\* /green and /red on the table of campaign c: the rows whose recomputed
\* hash is the hash of the request
RowsByComputedHashIn(c, tok) ==
    {e \in Emails : Store(c)[e].present /\ hash_email(e) = tok}

\* UPDATE leads SET ... WHERE email = ? on the table of campaign c
UpdateStore(c, email, new) ==
    IF c = DefaultCampaign
      THEN /\ leads' = UpdateRow(email, new)
           /\ other' = other
      ELSE /\ other' = IF other[email].present
                         THEN [other EXCEPT ![email] = new]
                         ELSE other
           /\ leads' = leads

\* the response of each route to a request whose lead it found
FoundResponse(q) ==
    IF q.endpoint = "track_open" THEN Pixel
    ELSE IF q.endpoint = "track_link" THEN Redirect(q.url)
    ELSE IF q.endpoint = "green" THEN Redirect(LandingPage)
    ELSE UnsubscribedPage

\* track_open from the route to fetchone(); w is the thread's record of the
\* request
TrackOpenServe(t, w) ==
    LET q == w.req IN
    IF q.hash = NoHash
      THEN web' = [web EXCEPT ![t] = [w EXCEPT !.res = EmptyOk]]
    ELSE IF q.campaign = NoCampaign \/ q.campaign \notin Campaigns
      THEN web' = [web EXCEPT ![t] = [w EXCEPT !.res = Pixel]]
    ELSE IF RowsByHashIn(q.campaign, q.hash) = {}
      THEN web' = [web EXCEPT ![t] =
                     [w EXCEPT !.store = q.campaign, !.res = Pixel]]
    ELSE \E e \in RowsByHashIn(q.campaign, q.hash) :
           web' = [web EXCEPT ![t] =
               [w EXCEPT !.pc = "open_update", !.store = q.campaign,
                         !.found = TRUE, !.email = e,
                         !.status = Store(q.campaign)[e].status,
                         !.opened = Store(q.campaign)[e].opened_timestamp,
                         !.count = Store(q.campaign)[e].interact_count,
                         !.t0 = now]]

\* GET /track_open
TrackOpenRequest(t, q) ==
    /\ q.endpoint = "track_open"
    /\ web[t].pc = "idle"
    /\ nreq < MaxRequests
    /\ nreq' = nreq + 1
    /\ TrackOpenServe(t, [IdleWeb EXCEPT !.req = q])
    /\ UNCHANGED <<leads, now, http, disp, accepted, outbox, other, imp,
                   back>>

\* track_open: the UPDATE, commit() and the response
TrackOpenWrite(t) ==
    /\ web[t].pc = "open_update"
    /\ \E ct \in web[t].t0 .. now :
         LET w == web[t]
             c == w.store
             e == w.email
         IN /\ UpdateStore(c, e, OpenedRow(Store(c)[e], w.opened,
                                           w.count, ct))
            /\ accepted' = IF c = DefaultCampaign /\ leads[e].present
                             THEN [accepted EXCEPT ![e] = @ + 1]
                             ELSE accepted
    /\ web' = [web EXCEPT ![t].pc = "idle",
                          ![t].res = FoundResponse(web[t].req)]
    /\ UNCHANGED <<now, http, disp, nreq, outbox, imp, back>>

\* a parameter check that looks at the hash only, as /green and /red do
LinkRejectsHash(q) == q.hash = NoHash

\* the parameters track_link rejects a request for
LinkRejects(q) == q.hash = NoHash \/ q.url = NoUrl

\* campaign_name of track_link, /green and /red
CampaignOf(q) ==
    IF q.campaign = NoCampaign THEN DefaultCampaign ELSE q.campaign

\* track_link from the route to fetchone()
TrackLinkServe(t, w) ==
    LET q == w.req
        manager == get_campaign_manager(CampaignOf(q))
    IN
    IF LinkRejects(q)
      THEN web' = [web EXCEPT ![t] = [w EXCEPT !.res = InvalidRequest]]
    ELSE IF manager = NoCampaign
      THEN web' = [web EXCEPT ![t] = [w EXCEPT !.res = ServerError]]
    ELSE IF RowsByHashIn(manager, q.hash) = {}
      THEN web' = [web EXCEPT ![t] =
                     [w EXCEPT !.store = manager, !.res = Redirect(q.url)]]
    ELSE \E e \in RowsByHashIn(manager, q.hash) :
           web' = [web EXCEPT ![t] =
               [w EXCEPT !.pc = "link_update", !.store = manager,
                         !.found = TRUE, !.email = e,
                         !.status = Store(manager)[e].status,
                         !.count = Store(manager)[e].interact_count,
                         !.t0 = now]]

\* GET /track_link, any request
TrackLinkRequest(t, q) ==
    /\ q.endpoint = "track_link"
    /\ web[t].pc = "idle"
    /\ nreq < MaxRequests
    /\ nreq' = nreq + 1
    /\ TrackLinkServe(t, [IdleWeb EXCEPT !.req = q])
    /\ UNCHANGED <<leads, now, http, disp, accepted, outbox, other, imp,
                   back>>

\* GET /track_link, the request a lead of campaign c makes by clicking a
\* link of the email main.py sent it
TrackLinkClick(t, kind, c, email) ==
    /\ web[t].pc = "idle"
    /\ Store(c)[email].present
    /\ nreq < MaxRequests
    /\ nreq' = nreq + 1
    /\ TrackLinkServe(t,
         [IdleWeb EXCEPT !.req = LinkOf(kind, c, email),
                         !.origin = c,
                         !.snap = [email |-> email,
                                   status |-> Store(c)[email].status,
                                   count |-> Store(c)[email].interact_count]])
    /\ UNCHANGED <<leads, now, http, disp, accepted, outbox, other, imp,
                   back>>

\* track_link: the UPDATE, commit() and the redirect
TrackLinkWrite(t) ==
    /\ web[t].pc = "link_update"
    /\ \E ct \in web[t].t0 .. now :
         LET w == web[t]
             c == w.store
             e == w.email
             dest == IF IsMarker(w.req.url, c) THEN "marker" ELSE "generic"
         IN /\ UpdateStore(c, e, ClickedRow(Store(c)[e], dest, w.status,
                                            w.count, ct))
            /\ accepted' = IF c = DefaultCampaign /\ leads[e].present
                             THEN [accepted EXCEPT ![e] = @ + 1]
                             ELSE accepted
    /\ web' = [web EXCEPT ![t].pc = "idle",
                          ![t].res = FoundResponse(web[t].req)]
    /\ UNCHANGED <<now, http, disp, nreq, outbox, imp, back>>

\* /green and /red from the route to the match of the recomputed hash
ColourServe(t, w) ==
    LET q == w.req
        manager == get_campaign_manager(CampaignOf(q))
    IN
    IF q.hash = NoHash
      THEN web' = [web EXCEPT ![t] = [w EXCEPT !.res = InvalidRequest]]
    ELSE IF manager = NoCampaign
      THEN web' = [web EXCEPT ![t] = [w EXCEPT !.res = ServerError]]
    ELSE IF RowsByComputedHashIn(manager, q.hash) = {}
      THEN web' = [web EXCEPT ![t] =
                     [w EXCEPT !.store = manager, !.res = LeadNotFound]]
    ELSE \E e \in RowsByComputedHashIn(manager, q.hash) :
           web' = [web EXCEPT ![t] =
               [w EXCEPT !.pc = "colour_update", !.store = manager,
                         !.found = TRUE, !.email = e, !.t0 = now]]

\* GET /green, GET /red
ColourRequest(t, q) ==
    /\ q.endpoint \in {"green", "red"}
    /\ web[t].pc = "idle"
    /\ nreq < MaxRequests
    /\ nreq' = nreq + 1
    /\ ColourServe(t, [IdleWeb EXCEPT !.req = q])
    /\ UNCHANGED <<leads, now, http, disp, accepted, outbox, other, imp,
                   back>>

\* the client follows the redirect track_link answered with, when it leads
\* to /green or /red of this server
FollowRedirect(t) ==
    /\ web[t].pc = "idle"
    /\ web[t].res.status = 302
    /\ web[t].res.location.path \in {"green", "red"}
    /\ nreq < MaxRequests
    /\ nreq' = nreq + 1
    /\ LET to == web[t].res.location IN
       ColourServe(t,
         [IdleWeb EXCEPT !.req = Request(to.path, to.hash, NoUrl,
                                         to.campaign),
                         !.origin = web[t].origin,
                         !.snap = web[t].snap,
                         !.notices = web[t].notices,
                         !.followed = TRUE])
    /\ UNCHANGED <<leads, now, http, disp, accepted, outbox, other, imp,
                   back>>

\* /green and /red: the UPDATE, commit(), send_notification_email and the
\* response
ColourWrite(t) ==
    /\ web[t].pc = "colour_update"
    /\ \E ct \in web[t].t0 .. now :
         LET w == web[t]
             c == w.store
             e == w.email
         IN UpdateStore(c, e, [Store(c)[e] EXCEPT
                                 !.status = w.req.endpoint,
                                 !.timestamp = ct])
    /\ web' = [web EXCEPT
         ![t].pc = "idle",
         ![t].notices = @ + 1,
         ![t].res = FoundResponse(web[t].req)]
    /\ UNCHANGED <<now, http, disp, nreq, accepted, outbox, imp, back>>

\* the table after load_csv_to_db has inserted the emails of csv it lacks
Loaded(store, csv, t) ==
    [e \in Emails |->
       IF e \in csv /\ ~store[e].present THEN NewRow(e, t) ELSE store[e]]

\* load_csv_to_db into the table of campaign c
LoadCsvTo(c, csv) ==
    /\ \E e \in csv : ~Store(c)[e].present
    /\ IF c = DefaultCampaign
         THEN leads' = Loaded(leads, csv, now) /\ other' = other
         ELSE other' = Loaded(other, csv, now) /\ leads' = leads
    /\ UNCHANGED <<now, http, disp, nreq, accepted, outbox, web, imp, back>>

----------------------------------------------------------------------------
(* The management routes of server.py: the operator's move_lead and        *)
(* delete_lead.  delete_lead runs two DELETEs in one transaction: what a   *)
(* transaction has executed is in admin.pending, out of the tables other   *)
(* connections read, until it is committed.                                *)

\* the status values the move_lead form can carry
FormStatuses == MoveInputs \cup {NoStatus}

\* campaign_name of move_lead and delete_lead
FormCampaign(campaign) ==
    IF campaign = NoCampaign THEN DefaultCampaign ELSE campaign

\* a move that leaves a lead that is green, red or blue where it is
MovedRowUnlessDecided(row, new_status, t) ==
    IF row.status \in Decided
      THEN row
      ELSE [row EXCEPT !.status = new_status, !.timestamp = t]

\* the row move_lead writes: UPDATE leads SET status = ?, timestamp = ?
MovedRow(row, new_status, t) ==
    [row EXCEPT !.status = new_status, !.timestamp = t]

\* POST /move_lead
MoveLeadRequest(email, new_status, campaign) ==
    /\ admin.pc = "idle"
    /\ LET manager == get_campaign_manager(FormCampaign(campaign)) IN
       IF manager = NoCampaign
         THEN /\ leads' = leads
              /\ other' = other
              /\ admin' = [IdleAdmin EXCEPT !.res = ServerError]
         ELSE /\ UpdateStore(manager, email,
                             MovedRow(Store(manager)[email], new_status, now))
              /\ admin' = [IdleAdmin EXCEPT
                             !.res = Redirect(DashboardUrl(manager))]
    /\ UNCHANGED <<now, http, disp, nreq, accepted, outbox, web, imp,
                   details, schema, boot, client>>

\* the form submissions lead_details can hold
Submissions == {"s1", "s2"}

Detail(campaign, email, id) ==
    [campaign |-> campaign, email |-> email, id |-> id]

\* SELECT ... FROM lead_details WHERE email = ? in the file of campaign c
DetailsOf(c, email) ==
    {d \in details : d.campaign = c /\ d.email = email}

\* a transaction of the operator's connection holds the write lock of the
\* database file of campaign c
WriteLocked(c) == admin.pending # {} /\ admin.campaign = c

\* a form submission of a lead is stored in lead_details
SubmitDetails(c, email, id) ==
    /\ Store(c)[email].present
    /\ ~WriteLocked(c)
    /\ Detail(c, email, id) \notin details
    /\ details' = details \cup {Detail(c, email, id)}
    /\ UNCHANGED <<leads, now, http, disp, nreq, accepted, outbox, other,
                   web, imp, admin, schema, boot, client>>

\* POST /delete_lead, up to the cursor
DeleteLeadRequest(email, campaign) ==
    /\ admin.pc = "idle"
    /\ LET manager == get_campaign_manager(FormCampaign(campaign)) IN
       admin' = IF manager = NoCampaign
                  THEN [IdleAdmin EXCEPT !.res = ServerError]
                  ELSE [IdleAdmin EXCEPT !.pc = "delete_leads",
                                         !.email = email,
                                         !.campaign = manager]
    /\ UNCHANGED <<leads, now, http, disp, nreq, accepted, outbox, other,
                   web, imp, details, schema, boot, client>>

\* a connection in autocommit mode: every statement is committed as it is
\* executed
CommitsAfterEach(stmt) == TRUE

\* delete_lead calls conn.commit() once, after the second DELETE
CommitsAfter(stmt) == stmt = "delete_details"

\* the tables once the DELETEs in stmts are committed
Deleted(c, email, stmts) ==
    /\ IF "delete_leads" \in stmts /\ c = DefaultCampaign
         THEN /\ leads' = [leads EXCEPT ![email] = NoRow]
              /\ accepted' = [accepted EXCEPT ![email] = 0]
         ELSE /\ leads' = leads
              /\ accepted' = accepted
    /\ other' = IF "delete_leads" \in stmts /\ c # DefaultCampaign
                  THEN [other EXCEPT ![email] = NoRow]
                  ELSE other
    /\ details' = IF "delete_details" \in stmts
                    THEN details \ DetailsOf(c, email)
                    ELSE details

\* delete_lead: the next DELETE, and after the second the commit() and the
\* response
DeleteExec ==
    /\ admin.pc \in {"delete_leads", "delete_details"}
    /\ LET c == admin.campaign
           e == admin.email
           done == admin.pending \cup {admin.pc}
           began == IF admin.pending = {}
                      THEN [lead |-> Store(c)[e], details |-> DetailsOf(c, e)]
                      ELSE admin.before
       IN /\ IF CommitsAfter(admin.pc)
               THEN Deleted(c, e, done)
               ELSE UNCHANGED <<leads, other, accepted, details>>
          /\ admin' = IF admin.pc = "delete_leads"
                        THEN [admin EXCEPT
                                !.pc = "delete_details",
                                !.before = began,
                                !.pending = IF CommitsAfter(admin.pc)
                                              THEN {} ELSE done]
                        ELSE [admin EXCEPT
                                !.pc = "idle",
                                !.before = began,
                                !.pending = {},
                                !.outcome = "deleted",
                                !.res = Redirect(DashboardUrl(c))]
    /\ UNCHANGED <<now, http, disp, nreq, outbox, web, imp, schema, boot,
                   client>>

\* delete_lead: the store fails at the next DELETE or at commit(): the
\* except branch rolls back and the same redirect is returned
DeleteFails ==
    /\ admin.pc \in {"delete_leads", "delete_details"}
    /\ admin' = [admin EXCEPT !.pc = "idle", !.pending = {},
                              !.outcome = "rolled back",
                              !.res = Redirect(DashboardUrl(admin.campaign))]
    /\ UNCHANGED <<leads, now, http, disp, nreq, accepted, outbox, other,
                   web, imp, details, schema, boot, client>>

----------------------------------------------------------------------------
(* The load action of the CLI as a process of its own: main.py reads the   *)
(* existing emails first and INSERTs later, in the transaction it commits  *)
(* at the end; scripts/main.py INSERTs OR IGNOREs without reading.         *)

MaxRows == 2        \* rows of a CSV file

ImportVariants == {"cli", "legacy"}

ImportEmails == {"a@x.com", "b@x.com"}

\* the CSV files: the emails of their rows, in order
CsvFiles == UNION {[1..n -> ImportEmails] : n \in 1..MaxRows}

\* INSERT OR REPLACE INTO leads: a row of that email is replaced
InsertOrReplace(row, email, t) == NewRow(email, t)

\* INSERT OR IGNORE INTO leads: a row of that email stays as it is
InsertOrIgnore(row, email, t) ==
    IF row.present THEN row ELSE NewRow(email, t)

\* load_csv_to_db, up to the SELECT email FROM leads of main.py
ImportStart(v, csv) ==
    /\ imp.pc = "idle"
    /\ imp' = [pc |-> "insert", variant |-> v, csv |-> csv,
               existing |-> IF v = "cli"
                              THEN {e \in Emails : leads[e].present}
                              ELSE {},
               result |-> ""]
    /\ UNCHANGED <<leads, now, http, disp, nreq, accepted, outbox, other,
                   web, back>>

\* load_csv_to_db, the INSERTs and commit().  main.py skips the emails in
\* existing_emails; its plain INSERT of an email that another connection
\* has committed since raises IntegrityError, and nothing is committed.
ImportInsert ==
    /\ imp.pc = "insert"
    /\ LET file == {imp.csv[i] : i \in DOMAIN imp.csv}
           new == file \ imp.existing
       IN IF imp.variant = "cli" /\ \E e \in new : leads[e].present
            THEN /\ leads' = leads
                 /\ imp' = [imp EXCEPT !.pc = "idle",
                                       !.result = "IntegrityError"]
            ELSE /\ leads' = [e \in Emails |->
                                IF e \in new
                                  THEN InsertOrIgnore(leads[e], e, now)
                                  ELSE leads[e]]
                 /\ imp' = [imp EXCEPT !.pc = "idle", !.result = "loaded"]
    /\ UNCHANGED <<now, http, disp, nreq, accepted, outbox, other, web, back>>

----------------------------------------------------------------------------
(* Dispatchers.  variant "server" is run_campaign with server.py's          *)
(* send_email, "cli" is main.py's send action, "legacy" is scripts/main.py's *)
(* send action.                                                            *)

Variants == {"server", "cli", "legacy"}

\* SELECT email, first_name FROM leads
\*   WHERE status = 'gray' AND (email_sent IS NULL OR email_sent = 0)
Eligible ==
    {e \in Emails : leads[e].present /\ leads[e].status = "gray"
                      /\ leads[e].email_sent = 0}

\* the statuses send_email returns False for without sending
SkipList(variant) ==
    IF variant = "legacy" THEN {"green", "red"} ELSE {"green", "red", "blue"}

\* where the loop goes once send_email has returned for one lead: the next
\* lead of the snapshot, or past the for loop (run_campaign selects again,
\* the CLI's send action ends)
AfterLead(variant, todo) ==
    IF todo # {} THEN "loop"
    ELSE IF variant = "server" THEN "select" ELSE "done"

\* a dispatcher process is started
RunStart(r, v) ==
    /\ disp[r].pc \in {"idle", "done"}
    /\ disp' = [disp EXCEPT ![r] = [IdleRunner EXCEPT !.pc = "select",
                                                      !.variant = v]]
    /\ UNCHANGED <<leads, now, http, nreq, accepted, outbox, front>>

\* the eligibility SELECT; no lead ends the run
RunSelect(r) ==
    /\ disp[r].pc = "select"
    /\ disp' = [disp EXCEPT ![r].todo = Eligible,
                            ![r].pc = IF Eligible = {} THEN "done" ELSE "loop"]
    /\ UNCHANGED <<leads, now, http, nreq, accepted, outbox, front>>

\* send_email for the next lead of the snapshot, up to its SELECT of
\* (status, interact_count): a lead read as green, red or blue is skipped
SendRead(r, e) ==
    /\ disp[r].pc = "loop"
    /\ e \in disp[r].todo
    /\ LET v == disp[r].variant
           rest == disp[r].todo \ {e}
           skip == leads[e].present /\ leads[e].status \in SkipList(v)
       IN disp' = [disp EXCEPT
             ![r].todo = rest,
             ![r].email = e,
             ![r].found = leads[e].present,
             ![r].status = leads[e].status,
             ![r].count = IF v = "legacy" THEN 0 ELSE leads[e].interact_count,
             ![r].ret = FALSE,
             ![r].pc = IF ~skip THEN "transport"
                       ELSE IF v = "server" THEN AfterLead(v, rest)
                       ELSE "reset"]
    /\ UNCHANGED <<leads, now, http, nreq, accepted, outbox, front>>

\* a success write that stamps the send and leaves email_sent as it is
SentRowUnflagged(row, variant, count, t) ==
    IF variant = "legacy"
      THEN row
      ELSE [row EXCEPT !.interact_count = count + 1,
                       !.timestamp = t, !.sent_template = Template,
                       !.last_interact_timestamp = t]

\* a success write that also puts the lead back into the list it was sent
\* from
SentRowGray(row, variant, count, t) ==
    IF variant = "legacy"
      THEN [row EXCEPT !.email_sent = 1, !.status = "gray"]
      ELSE [row EXCEPT !.email_sent = 1, !.status = "gray",
                       !.interact_count = count + 1,
                       !.timestamp = t, !.sent_template = Template,
                       !.last_interact_timestamp = t]

\* the row send_email writes after server.send_message(msg) returned
SentRow(row, variant, count, t) ==
    IF variant = "legacy"
      THEN [row EXCEPT !.email_sent = 1]
      ELSE [row EXCEPT !.email_sent = 1, !.interact_count = count + 1,
                       !.timestamp = t, !.sent_template = Template,
                       !.last_interact_timestamp = t]

\* send_email, the transport call succeeds: the message is handed over, the
\* outcome is written and True is returned
SendOk(r) ==
    /\ disp[r].pc = "transport"
    /\ LET e == disp[r].email
           v == disp[r].variant
       IN /\ leads' = UpdateRow(e, SentRow(leads[e], v, disp[r].count, now))
          /\ outbox' = outbox \cup {<<e, disp[r].status>>}
          /\ disp' = [disp EXCEPT ![r].pc = "sleep",
                                  ![r].ret = TRUE,
                                  ![r].succeeded = @ \cup {e}]
    /\ UNCHANGED <<now, http, nreq, accepted, front>>

\* a failure branch that also puts the lead back into the list to send to
SendFailRequeues(r) ==
    /\ disp[r].pc = "transport"
    /\ LET e == disp[r].email
           v == disp[r].variant
       IN /\ leads' = UpdateRow(e, [leads[e] EXCEPT !.email_sent = 0,
                                                    !.status = "gray"])
          /\ disp' = [disp EXCEPT
               ![r].pc = IF v = "server" THEN AfterLead(v, disp[r].todo)
                         ELSE "reset",
               ![r].ret = FALSE,
               ![r].failed = @ \cup {e}]
    /\ UNCHANGED <<now, http, nreq, accepted, outbox, front>>

\* send_email, the transport call raises (or, in the CLI variants, the
\* attachment is larger than 5 MiB): email_sent = 0 is written and False is
\* returned
SendFail(r) ==
    /\ disp[r].pc = "transport"
    /\ LET e == disp[r].email
           v == disp[r].variant
       IN /\ leads' = UpdateRow(e, [leads[e] EXCEPT !.email_sent = 0])
          /\ disp' = [disp EXCEPT
               ![r].pc = IF v = "server" THEN AfterLead(v, disp[r].todo)
                         ELSE "reset",
               ![r].ret = FALSE,
               ![r].failed = @ \cup {e}]
    /\ UNCHANGED <<now, http, nreq, accepted, outbox, front>>

\* main(), the else branch after send_email returned False: a second
\* UPDATE leads SET email_sent = 0 on a fresh connection
SendReset(r) ==
    /\ disp[r].pc = "reset"
    /\ LET e == disp[r].email IN
       leads' = UpdateRow(e, [leads[e] EXCEPT !.email_sent = 0])
    /\ disp' = [disp EXCEPT
         ![r].pc = AfterLead(disp[r].variant, disp[r].todo)]
    /\ UNCHANGED <<now, http, nreq, accepted, outbox, front>>

\* send_email returned True: time.sleep(delay) is called, and returns when
\* the campaign's delay has passed
RunSleep(r) ==
    /\ disp[r].pc = "sleep"
    /\ disp' = [disp EXCEPT
         ![r].pc = AfterLead(disp[r].variant, disp[r].todo)]
    /\ UNCHANGED <<leads, now, http, nreq, accepted, outbox, front>>

\* send_email, the transport call does not return: SMTP_SSL is opened with
\* no timeout and the process sets no default one, so a peer that stops
\* answering leaves the call blocked in the socket
SendHang(r) ==
    /\ disp[r].pc = "transport"
    /\ disp' = [disp EXCEPT ![r].pc = "blocked"]
    /\ UNCHANGED <<leads, now, http, nreq, accepted, outbox, front>>

RunnerStep(r) ==
    \/ RunSelect(r)
    \/ \E e \in Emails : SendRead(r, e)
    \/ SendOk(r)
    \/ SendFail(r)
    \/ SendReset(r)
    \/ RunSleep(r)

----------------------------------------------------------------------------
(* Start-up of the server process: the module level of server.py, which    *)
(* builds the managers, runs init_db on every campaign's database file and *)
(* reads the dashboard password, and the __main__ block, which starts the  *)
(* dispatcher threads, joins them and calls app.run.                       *)

\* the emails of a database file that exists when the process starts
BootEmails == {"a@x.com", "b@x.com"}

\* a row of a leads table created before the hash column existed, with the
\* columns init_db adds to it: ALTER TABLE leads ADD COLUMN hash TEXT gives
\* the rows no value
LegacyRow(t) == Row("gray", t, NoHash, NULL, 0, 0, NULL, NoTemplate)

\* the rows of a database file with the given schema
RowsFound(sch) ==
    [e \in Emails |->
       IF e \notin BootEmails \/ sch = "none" THEN NoRow
       ELSE IF sch = "legacy" THEN LegacyRow(1)
       ELSE NewRow(e, 1)]

\* the process is started: each database file is absent, left by an earlier
\* version or left by this one, and each secret is set or not
InitBoot ==
    /\ \E sch \in [Campaigns -> Schemas], smtp \in BOOLEAN,
          dashboard \in BOOLEAN :
         /\ schema = sch
         /\ leads = RowsFound(sch[DefaultCampaign])
         /\ other = RowsFound(sch["de"])
         /\ boot = [pc |-> "managers", smtp |-> smtp,
                    dashboard |-> dashboard, todo |-> {},
                    found |-> [c \in Campaigns |->
                                 [schema |-> sch[c],
                                  rows |-> RowsFound(sch[c])]]]
    /\ now = 1
    /\ http = [t \in Threads |-> IdleReq]
    /\ disp = [r \in Runners |-> IdleRunner]
    /\ nreq = 0
    /\ accepted = [e \in Emails |-> 0]
    /\ outbox = {}
    /\ web = [t \in Threads |-> IdleWeb]
    /\ imp = IdleImport
    /\ details = {}
    /\ admin = IdleAdmin
    /\ client = "none"

\* campaign_managers: a CampaignManager is built for every campaign;
\* __init__ raises ValueError when SMTP_PASSWORD is not set
BootManagers ==
    /\ boot.pc = "managers"
    /\ boot' = IF boot.smtp
                 THEN [boot EXCEPT !.pc = "init_db", !.todo = Campaigns]
                 ELSE [boot EXCEPT !.pc = "aborted"]
    /\ UNCHANGED <<leads, now, http, disp, nreq, accepted, outbox, other,
                   web, imp, details, admin, schema, client>>

\* the rows init_db leaves: its UPDATEs replace the NULLs of email_sent,
\* interact_count and last_interact_timestamp, and no statement sets hash
InitDbRows(store, t) ==
    [e \in Emails |->
       IF store[e].present /\ store[e].last_interact_timestamp = NULL
         THEN [store[e] EXCEPT !.last_interact_timestamp = t]
         ELSE store[e]]

\* manager.init_db() of the next manager: the tables are created if they
\* do not exist, the missing columns are added, the NULLs are replaced
BootInitDb(c) ==
    /\ boot.pc = "init_db"
    /\ c \in boot.todo
    /\ schema' = [schema EXCEPT ![c] = "current"]
    /\ IF c = DefaultCampaign
         THEN leads' = InitDbRows(leads, now) /\ other' = other
         ELSE other' = InitDbRows(other, now) /\ leads' = leads
    /\ boot' = [boot EXCEPT
                  !.todo = @ \ {c},
                  !.pc = IF boot.todo = {c} THEN "dashboard" ELSE "init_db"]
    /\ UNCHANGED <<now, http, disp, nreq, accepted, outbox, web, imp,
                   details, admin, client>>

\* _dashboard_password: ValueError when DASHBOARD_PASSWORD is not set
BootDashboard ==
    /\ boot.pc = "dashboard"
    /\ boot' = IF boot.dashboard
                 THEN [boot EXCEPT !.pc = "start"]
                 ELSE [boot EXCEPT !.pc = "aborted"]
    /\ UNCHANGED <<leads, now, http, disp, nreq, accepted, outbox, other,
                   web, imp, details, admin, schema, client>>

\* __main__: a run_campaign thread is started for every manager (disp is
\* the thread of the default campaign)
BootStartThreads ==
    /\ boot.pc = "start"
    /\ disp' = [r \in Runners |->
                  [IdleRunner EXCEPT !.pc = "select", !.variant = "server"]]
    /\ boot' = [boot EXCEPT !.pc = "join"]
    /\ UNCHANGED <<leads, now, http, nreq, accepted, outbox, other, web,
                   imp, details, admin, schema, client>>

\* __main__: thread.join() has returned for every thread, and app.run
\* starts to listen
BootJoin ==
    /\ boot.pc = "join"
    /\ \A r \in Runners : disp[r].pc = "done"
    /\ boot' = [boot EXCEPT !.pc = "serving"]
    /\ UNCHANGED <<leads, now, http, disp, nreq, accepted, outbox, other,
                   web, imp, details, admin, schema, client>>

BootStep ==
    \/ BootManagers
    \/ \E c \in Campaigns : BootInitDb(c)
    \/ BootDashboard
    \/ BootStartThreads
    \/ BootJoin

\* a dispatcher thread is in its run
RunInProgress == \E r \in Runners : disp[r].pc \notin {"idle", "done"}

\* the pixel request of the mail client of a lead
ClientRequest == Request("track_open", hash_email("a@x.com"), NoUrl,
                         DefaultCampaign)

\* a lead opens its email while a dispatcher run is in progress: its mail
\* client requests the pixel, and keeps trying until the server answers
ClientSends ==
    /\ client = "none"
    /\ RunInProgress
    /\ client' = "sent"
    /\ UNCHANGED <<leads, now, http, disp, nreq, accepted, outbox, other,
                   web, imp, details, admin, schema, boot>>

\* the listening server accepts the client's request and track_open serves
\* it up to fetchone()
AcceptEvent(t) ==
    /\ boot.pc = "serving"
    /\ client = "sent"
    /\ web[t].pc = "idle"
    /\ TrackOpenServe(t, [IdleWeb EXCEPT !.req = ClientRequest])
    /\ client' = "handled"
    /\ UNCHANGED <<leads, now, http, disp, nreq, accepted, outbox, other,
                   imp, details, admin, schema, boot>>

----------------------------------------------------------------------------
(* Specifications.  The program is checked in scenes, each the composition *)
(* of the processes named in its next-state relation.                      *)

\* the lead the request threads and the operator work on
TrackEmails == {"a@x.com"}

\* the request threads that serve tracking events while a dispatcher runs
SendThreads == {"t1"}

\* Scene 1: the HTTP surface of server.py - concurrent request threads and
\* the operator, on one lead
NextTrack ==
    \/ Tick
    \/ \E t \in Threads, tok \in Tokens : TrackOpenSelect(t, tok)
    \/ \E t \in Threads : TrackOpenUpdate(t)
    \/ \E t \in Threads, tok \in Tokens, d \in DestKinds :
         TrackLinkSelect(t, tok, d)
    \/ \E t \in Threads : TrackLinkUpdate(t)
    \/ \E t \in Threads, tok \in Tokens, c \in {"green", "red"} :
         ColourSelect(t, tok, c)
    \/ \E t \in Threads : ColourUpdate(t)
    \/ \E e \in TrackEmails, s \in MoveInputs : MoveLead(e, s)
    \/ \E e \in TrackEmails : DeleteLead(e)
    \/ \E csv \in (SUBSET TrackEmails) \ {{}} : LoadCsv(csv)
    \/ InitDb

SpecTrack == Init /\ [][NextTrack]_vars

\* Scene 2: a dispatcher sending to one lead while a request thread serves
\* that lead's tracking events and the operator moves it
NextSend ==
    \/ \E csv \in (SUBSET TrackEmails) \ {{}} : LoadCsv(csv)
    \/ \E e \in TrackEmails, s \in MoveInputs : MoveLead(e, s)
    \/ \E t \in SendThreads, tok \in Tokens : TrackOpenSelect(t, tok)
    \/ \E t \in SendThreads : TrackOpenUpdate(t)
    \/ \E t \in SendThreads, tok \in Tokens, d \in DestKinds :
         TrackLinkSelect(t, tok, d)
    \/ \E t \in SendThreads : TrackLinkUpdate(t)
    \/ \E r \in Runners, v \in Variants : RunStart(r, v)
    \/ \E r \in Runners : RunSelect(r)
    \/ \E r \in Runners, e \in Emails : SendRead(r, e)
    \/ \E r \in Runners : SendOk(r)
    \/ \E r \in Runners : SendFail(r)
    \/ \E r \in Runners : SendReset(r)
    \/ \E r \in Runners : RunSleep(r)

SpecSend == Init /\ [][NextSend]_vars

\* Scene 3: a dispatcher run over several imported leads
NextDispatch ==
    \/ \E csv \in (SUBSET Emails) \ {{}} : LoadCsv(csv)
    \/ \E r \in Runners, v \in Variants : RunStart(r, v)
    \/ \E r \in Runners : RunSelect(r)
    \/ \E r \in Runners, e \in Emails : SendRead(r, e)
    \/ \E r \in Runners : SendOk(r)
    \/ \E r \in Runners : SendFail(r)
    \/ \E r \in Runners : SendReset(r)
    \/ \E r \in Runners : RunSleep(r)

SpecDispatch == Init /\ [][NextDispatch]_vars

\* a started dispatcher process keeps running: run_campaign is a thread of
\* its own and the CLI's send action a process of its own, and neither waits
\* for anything but the store and the mail transport
FairDispatch == SpecDispatch /\ \A r \in Runners : WF_vars(RunnerStep(r))

\* the request thread of scene 4
RouteThreads == {"t1"}

\* the hash parameter of a request: absent, the hash of a lead, and the
\* hash of an email that is in no table
RouteTokens == {NoHash, hash_email("a@x.com"), hash_email("b@x.com")}

OpenRequests ==
    {Request("track_open", h, NoUrl, c) : h \in RouteTokens, c \in CampaignArgs}

LinkUrls == {NoUrl, SiteUrl} \cup {MarkerUrl(c, "a@x.com") : c \in Campaigns}

LinkRequests ==
    {Request("track_link", h, u, c) :
       h \in RouteTokens, u \in LinkUrls, c \in CampaignArgs}

ColourRequests ==
    {Request(k, h, NoUrl, c) :
       k \in {"green", "red"}, h \in RouteTokens, c \in CampaignArgs}

\* Scene 4: the routes of server.py serving requests for two campaigns that
\* hold the same email
NextRoute ==
    \/ \E c \in Campaigns, csv \in (SUBSET TrackEmails) \ {{}} :
         LoadCsvTo(c, csv)
    \/ \E t \in RouteThreads, q \in OpenRequests : TrackOpenRequest(t, q)
    \/ \E t \in RouteThreads : TrackOpenWrite(t)
    \/ \E t \in RouteThreads, q \in LinkRequests : TrackLinkRequest(t, q)
    \/ \E t \in RouteThreads, k \in LinkKinds, c \in Campaigns,
          e \in TrackEmails : TrackLinkClick(t, k, c, e)
    \/ \E t \in RouteThreads : TrackLinkWrite(t)
    \/ \E t \in RouteThreads, q \in ColourRequests : ColourRequest(t, q)
    \/ \E t \in RouteThreads : FollowRedirect(t)
    \/ \E t \in RouteThreads : ColourWrite(t)

SpecRoute == Init /\ [][NextRoute]_vars

\* Scene 5: the load action, a second load, the operator and a request
\* thread
NextImport ==
    \/ \E v \in ImportVariants, csv \in CsvFiles : ImportStart(v, csv)
    \/ ImportInsert
    \/ \E csv \in (SUBSET ImportEmails) \ {{}} : LoadCsv(csv)
    \/ \E e \in TrackEmails : MoveLead(e, "red")
    \/ \E e \in ImportEmails : DeleteLead(e)
    \/ \E t \in SendThreads, e \in TrackEmails :
         TrackOpenSelect(t, hash_email(e))
    \/ \E t \in SendThreads : TrackOpenUpdate(t)

SpecImport == Init /\ [][NextImport]_vars

\* the tracking requests the emails of one lead of the default campaign
\* cause: its pixel, a link to the company site and a marker link
EventsOf(e) ==
    {Request("track_open", hash_email(e), NoUrl, DefaultCampaign),
     Request("track_link", hash_email(e), SiteUrl, DefaultCampaign),
     Request("track_link", hash_email(e), MarkerUrl(DefaultCampaign, e),
             DefaultCampaign)}

EventRequests == UNION {EventsOf(e) : e \in TrackEmails}

\* Scene 6: concurrent tracking events of one lead of the default campaign,
\* the clock, and the operator marking the lead red
NextEvents ==
    \/ Tick
    \/ \E csv \in (SUBSET TrackEmails) \ {{}} : LoadCsvTo(DefaultCampaign, csv)
    \/ \E e \in TrackEmails : MoveLead(e, "red")
    \/ \E t \in Threads, q \in EventRequests : TrackOpenRequest(t, q)
    \/ \E t \in Threads : TrackOpenWrite(t)
    \/ \E t \in Threads, q \in EventRequests : TrackLinkRequest(t, q)
    \/ \E t \in Threads : TrackLinkWrite(t)

SpecEvents == Init /\ [][NextEvents]_vars

\* the pixel of the email sent to a lead of campaign c
OpenOf(c, e) == Request("track_open", hash_email(e), NoUrl, c)

\* the campaign field of the move_lead form: absent, a campaign that does
\* not hold the lead, and a name that is no campaign
MoveArgs == {NoCampaign, "de", "nosuch"}

\* the status field of the forms of this scene: a list the dashboard shows
\* leads to send to, a list of decided leads, a string that names no list,
\* and no field
MoveStatuses == {"gray", "green", "other", NoStatus}

\* Scene 7: the operator moves a lead at the dashboard while the lead opens
\* its email
NextMove ==
    \/ Tick
    \/ \E csv \in (SUBSET TrackEmails) \ {{}} :
         LoadCsvTo(DefaultCampaign, csv)
    \/ \E t \in RouteThreads, e \in TrackEmails :
         TrackOpenRequest(t, OpenOf(DefaultCampaign, e))
    \/ \E t \in RouteThreads : TrackOpenWrite(t)
    \/ \E e \in TrackEmails, st \in MoveStatuses, c \in MoveArgs :
         MoveLeadRequest(e, st, c)

SpecMove == Init /\ [][NextMove]_vars

\* Scene 8: the operator deletes leads of two campaigns that hold the same
\* email, while leads are loaded and submit the form
NextDelete ==
    \/ \E c \in Campaigns, csv \in (SUBSET TrackEmails) \ {{}} :
         ~WriteLocked(c) /\ LoadCsvTo(c, csv)
    \/ \E c \in Campaigns, e \in TrackEmails, id \in Submissions :
         SubmitDetails(c, e, id)
    \/ \E e \in TrackEmails, c \in CampaignArgs : DeleteLeadRequest(e, c)
    \/ DeleteExec
    \/ DeleteFails

SpecDelete == Init /\ [][NextDelete]_vars

\* Scene 9: the server process from its start to app.run, with the
\* dispatcher thread it starts and a mail client requesting a pixel
NextBoot ==
    \/ BootManagers
    \/ \E c \in Campaigns : BootInitDb(c)
    \/ BootDashboard
    \/ BootStartThreads
    \/ BootJoin
    \/ \E r \in Runners : RunSelect(r)
    \/ \E r \in Runners, e \in Emails : SendRead(r, e)
    \/ \E r \in Runners : SendOk(r)
    \/ \E r \in Runners : SendFail(r)
    \/ \E r \in Runners : RunSleep(r)
    \/ ClientSends
    \/ \E t \in RouteThreads : AcceptEvent(t)
    \/ \E t \in RouteThreads : TrackOpenWrite(t)

SpecBoot == InitBoot /\ [][NextBoot]_vars

\* the main thread, the dispatcher thread and the request thread each keep
\* running: nothing but the join makes the main thread wait
FairBoot ==
    /\ SpecBoot
    /\ WF_vars(BootStep)
    /\ \A r \in Runners : WF_vars(RunnerStep(r))
    /\ \A t \in RouteThreads : WF_vars(AcceptEvent(t) \/ TrackOpenWrite(t))

\* Scene 10: a dispatcher sending to one lead, which opens its email and
\* is moved by the operator while the send is under way
NextAttempt ==
    \/ \E csv \in (SUBSET TrackEmails) \ {{}} : LoadCsv(csv)
    \/ \E e \in TrackEmails, st \in {"gray", "red"} : MoveLead(e, st)
    \/ \E t \in SendThreads, e \in TrackEmails :
         TrackOpenSelect(t, hash_email(e))
    \/ \E t \in SendThreads : TrackOpenUpdate(t)
    \/ \E r \in Runners, v \in Variants : RunStart(r, v)
    \/ \E r \in Runners : RunSelect(r)
    \/ \E r \in Runners, e \in TrackEmails : SendRead(r, e)
    \/ \E r \in Runners : SendOk(r)
    \/ \E r \in Runners : SendFail(r)
    \/ \E r \in Runners : SendReset(r)
    \/ \E r \in Runners : RunSleep(r)

SpecAttempt == Init /\ [][NextAttempt]_vars

\* Scene 11: a dispatcher run over several imported leads with a mail
\* transport that may stop answering
NextHang ==
    \/ NextDispatch
    \/ \E r \in Runners : SendHang(r)

SpecHang == Init /\ [][NextHang]_vars

\* the dispatcher keeps running whenever it has a step to take; whether the
\* transport answers is not the dispatcher's to decide
FairHang == SpecHang /\ \A r \in Runners : WF_vars(RunnerStep(r))

\* Scene 12: the operator annotates a lead while everything else happens to
\* it - it is loaded and loaded again, the store is initialized, the server's
\* dispatcher sends to it, it opens, clicks and answers, and it is moved
\* back to the list to send to
NextNotes ==
    \/ \E e \in TrackEmails : ImportStart("cli", <<e>>)
    \/ ImportInsert
    \/ InitDb
    \/ \E t \in SendThreads, e \in TrackEmails :
         TrackOpenSelect(t, hash_email(e))
    \/ \E t \in SendThreads : TrackOpenUpdate(t)
    \/ \E t \in SendThreads, e \in TrackEmails, d \in DestKinds :
         TrackLinkSelect(t, hash_email(e), d)
    \/ \E t \in SendThreads : TrackLinkUpdate(t)
    \/ \E t \in SendThreads, e \in TrackEmails, c \in {"green", "red"} :
         ColourSelect(t, hash_email(e), c)
    \/ \E t \in SendThreads : ColourUpdate(t)
    \/ \E e \in TrackEmails : MoveLead(e, "gray")
    \/ \E e \in TrackEmails, n \in Notes : UpdateNotes(e, n)
    \/ \E r \in Runners : RunStart(r, "server")
    \/ \E r \in Runners : RunSelect(r)
    \/ \E r \in Runners, e \in TrackEmails : SendRead(r, e)
    \/ \E r \in Runners : SendOk(r)
    \/ \E r \in Runners : SendFail(r)
    \/ \E r \in Runners : RunSleep(r)

SpecNotes == Init /\ [][NextNotes]_vars

\* Scene 13: the automated events of one lead - the sends of every
\* dispatcher, opens, clicks, /green, /red - beside the operator's moves
NextLead ==
    \/ \E csv \in (SUBSET TrackEmails) \ {{}} : LoadCsv(csv)
    \/ \E t \in SendThreads, e \in TrackEmails :
         TrackOpenSelect(t, hash_email(e))
    \/ \E t \in SendThreads : TrackOpenUpdate(t)
    \/ \E t \in SendThreads, e \in TrackEmails, d \in DestKinds :
         TrackLinkSelect(t, hash_email(e), d)
    \/ \E t \in SendThreads : TrackLinkUpdate(t)
    \/ \E t \in SendThreads, e \in TrackEmails, c \in {"green", "red"} :
         ColourSelect(t, hash_email(e), c)
    \/ \E t \in SendThreads : ColourUpdate(t)
    \/ \E e \in TrackEmails, st \in {"gray", "blue"} : MoveLead(e, st)
    \/ \E r \in Runners, v \in Variants : RunStart(r, v)
    \/ \E r \in Runners : RunSelect(r)
    \/ \E r \in Runners, e \in TrackEmails : SendRead(r, e)
    \/ \E r \in Runners : SendOk(r)
    \/ \E r \in Runners : SendFail(r)
    \/ \E r \in Runners : SendReset(r)
    \/ \E r \in Runners : RunSleep(r)

SpecLead == Init /\ [][NextLead]_vars

\* the dispatchers of scene 14: the run_campaign thread of the server and a
\* send action of the CLI started on the same campaign
Dispatchers == {"r1", "r2"}

MaxSends == 2       \* sends to one lead after which no further run is started

\* a further run may be started: no lead has been sent to MaxSends times
MaySend == \A e \in Emails : leads[e].interact_count < MaxSends

\* the store is empty, the server is up and no dispatcher runs yet
InitOverlap ==
    /\ leads = [e \in Emails |-> NoRow]
    /\ now = 1
    /\ http = [t \in Threads |-> IdleReq]
    /\ disp = [r \in Dispatchers |-> IdleRunner]
    /\ nreq = 0
    /\ accepted = [e \in Emails |-> 0]
    /\ outbox = {}
    /\ other = [e \in Emails |-> NoRow]
    /\ web = [t \in Threads |-> IdleWeb]
    /\ imp = IdleImport
    /\ details = {}
    /\ admin = IdleAdmin
    /\ schema = [c \in Campaigns |-> "current"]
    /\ boot = Serving
    /\ client = "none"

\* Scene 14: two dispatcher runs on the same campaign at the same time, with
\* no operator at the dashboard
NextOverlap ==
    \/ \E csv \in (SUBSET TrackEmails) \ {{}} : LoadCsv(csv)
    \/ MaySend /\ RunStart("r1", "server")
    \/ MaySend /\ RunStart("r2", "cli")
    \/ \E r \in Dispatchers : RunSelect(r)
    \/ \E r \in Dispatchers, e \in TrackEmails : SendRead(r, e)
    \/ \E r \in Dispatchers : SendOk(r)
    \/ \E r \in Dispatchers : SendFail(r)
    \/ \E r \in Dispatchers : SendReset(r)
    \/ \E r \in Dispatchers : RunSleep(r)

SpecOverlap == InitOverlap /\ [][NextOverlap]_vars

----------------------------------------------------------------------------
(* Claims *)

AllIdle == \A t \in Threads : http[t].pc = "idle"

\* r's send_email writes its outcome in this step
SendWrites(r) == disp[r].pc = "transport" /\ disp'[r].pc # "transport"

\* C1: when concurrent tracking events (track_open, track_link) on one lead
\* have all completed, interact_count equals its value before (0 at import)
\* plus the number of events that resolved the lead - no increment is lost.
C1_NoLostIncrement ==
    AllIdle => \A e \in Emails :
        leads[e].present => leads[e].interact_count = accepted[e]

\* C2: the write send_email makes after the transport call keeps what
\* tracking events wrote since send_email's read: it does not change the
\* status and does not take interact_count back below its current value.
C2_SendKeepsTrackingWrites ==
    [][\A r \in Runners :
         SendWrites(r) =>
           LET e == disp[r].email IN
           leads[e].present =>
             /\ leads'[e].status = leads[e].status
             /\ leads'[e].interact_count >= leads[e].interact_count]_vars

\* C3: interact_count of a lead never decreases, in any step of any
\* operation.
C3_CountNeverDecreases ==
    [][\A e \in Emails :
         (leads[e].present /\ leads'[e].present) =>
           leads'[e].interact_count >= leads[e].interact_count]_vars

\* C4: a successful send (server.py, main.py) leaves interact_count
\* unchanged; its only effect on the row is email_sent = 1, sent_template
\* and the send timestamp.
C4_SendIsNoInteraction ==
    [][\A r \in Runners :
         (SendWrites(r) /\ disp'[r].ret /\ disp[r].variant \in {"server", "cli"})
           => LET e == disp[r].email IN
              leads[e].present =>
                leads'[e] = [leads[e] EXCEPT !.email_sent = 1,
                                             !.sent_template = Template,
                                             !.timestamp = now]]_vars

\* C5: once opened_timestamp of a lead is set, no later step changes it.
C5_OpenedSetOnce ==
    [][\A e \in Emails :
         (leads[e].present /\ leads[e].opened_timestamp # NULL
            /\ leads'[e].present)
           => leads'[e].opened_timestamp = leads[e].opened_timestamp]_vars

\* C6: the write of a generic (non-marker) click that read the lead as red
\* or green, and finds it so, never takes it to yellow.
C6_GenericClickKeepsDecided ==
    [][\A t \in Threads :
         (http[t].pc = "link_update" /\ http[t].dest = "generic"
            /\ http'[t].pc = "idle")
           => LET e == http[t].email IN
              (leads[e].present /\ leads[e].status \in {"red", "green"}
                 /\ http[t].status = leads[e].status)
                => leads'[e].status # "yellow"]_vars

\* C7: the write of an open event on a green, red or blue lead whose
\* opened_timestamp is unset leaves the status unchanged, sets
\* opened_timestamp and adds one to interact_count.
C7_FirstOpenKeepsDecided ==
    [][\A t \in Threads :
         (http[t].pc = "open_update" /\ http'[t].pc = "idle")
           => LET e == http[t].email IN
              (leads[e].present /\ leads[e].opened_timestamp = NULL
                 /\ leads[e].status \in Decided)
                => /\ leads'[e].status = leads[e].status
                   /\ leads'[e].opened_timestamp # NULL
                   /\ leads'[e].interact_count
                        = leads[e].interact_count + 1]_vars

\* C8: no message is handed to the mail transport by a send_email that
\* read the lead's status as green, red or blue.
C8_NoSendToDecided ==
    \A m \in outbox : m[2] \notin Decided

\* C9: when a dispatcher run has ended, every lead of its snapshot was
\* processed, every lead whose send succeeded has email_sent = 1 and every
\* lead whose send failed has email_sent = 0.
C9_RunSurvivesFailedSend ==
    \A r \in Runners :
      disp[r].pc = "done" =>
        /\ disp[r].todo = {}
        /\ \A e \in disp[r].succeeded \ disp[r].failed :
             leads[e].present => leads[e].email_sent = 1
        /\ \A e \in disp[r].failed :
             leads[e].present => leads[e].email_sent = 0

\* C10: every dispatcher run that was started eventually ends.
C10_RunEnds ==
    \A r \in Runners : (disp[r].pc = "select") ~> (disp[r].pc = "done")

\* the campaign whose table a tracking request is served from
Addressed(q) ==
    IF q.endpoint = "track_open" THEN q.campaign ELSE CampaignOf(q)

\* t receives a request in this step
Arrives(t) == web[t].pc = "idle" /\ web'[t] # web[t]

\* t's handler writes and answers in this step
Writes(t) == web[t].pc # "idle" /\ web'[t].pc = "idle"

\* C11: a tracking request (track_open, track_link) whose hash matches no
\* lead of the campaign it addresses changes no row of any campaign's table
\* and adds none: the handler ends with the SELECT, without an UPDATE to come.
C11_UnknownTokenWritesNothing ==
    [][\A t \in Threads :
         (/\ Arrives(t)
          /\ web'[t].req.endpoint \in {"track_open", "track_link"}
          /\ web'[t].req.hash # NoHash
          /\ \/ Addressed(web'[t].req) \notin Campaigns
             \/ \A e \in Emails :
                  LET row == Store(Addressed(web'[t].req))[e] IN
                  ~(row.present /\ row.hash = web'[t].req.hash))
           => /\ leads' = leads
              /\ other' = other
              /\ web'[t].pc = "idle"
              /\ ~web'[t].found]_vars

\* an unmatched tracking request was answered while the other campaign holds
\* a lead with that hash
C11_Witness ==
    \E t \in Threads, c \in Campaigns, e \in Emails :
      /\ web[t].pc = "idle"
      /\ web[t].req.endpoint \in {"track_open", "track_link"}
      /\ web[t].req.hash = hash_email(e)
      /\ web[t].store = c
      /\ ~web[t].found
      /\ web[t].res # NoResponse
      /\ ~Store(c)[e].present
      /\ \E d \in Campaigns \ {c} : Store(d)[e].present

\* C12: when a lead that was yellow has clicked the "interested" link of the
\* email sent to it for its campaign, and the request and the redirect it
\* leads to have been served, the lead is green in that campaign's table, its
\* interact_count is one more than before the click, and one notification
\* was sent.
C12_MarkerClickTurnsGreen ==
    \A t \in Threads :
      (/\ web[t].pc = "idle"
       /\ web[t].followed
       /\ web[t].req.endpoint = "green"
       /\ web[t].snap.status = "yellow")
        => LET row == Store(web[t].origin)[web[t].snap.email] IN
           row.present =>
             /\ row.status = "green"
             /\ row.interact_count = web[t].snap.count + 1
             /\ web[t].notices = 1

\* C13: the write of a click on a link that is not the marker link, by a
\* lead track_link read as red, leaves the lead's status as it is (red) and
\* sets interact_count to the count read plus one: one more than the row
\* holds, unless another writer changed the count since the read.
C13_RedLeadClickStaysRed ==
    [][\A t \in Threads :
         (/\ Writes(t)
          /\ web[t].pc = "link_update"
          /\ ~IsMarker(web[t].req.url, web[t].store)
          /\ web[t].status = "red")
           => LET c == web[t].store
                  e == web[t].email
              IN Store(c)[e].present =>
                   /\ Store(c)'[e].status = Store(c)[e].status
                   /\ Store(c)[e].status = "red"
                        => Store(c)'[e].status = "red"
                   /\ Store(c)'[e].interact_count = web[t].count + 1
                   /\ Store(c)[e].interact_count = web[t].count
                        => Store(c)'[e].interact_count
                             = Store(c)[e].interact_count + 1]_vars

\* a click on the company link by a lead read as red was served: the lead is
\* red and its count is the count read plus one
C13_Witness ==
    \E t \in Threads :
      /\ web[t].pc = "idle"
      /\ web[t].req.endpoint = "track_link"
      /\ web[t].req.url = SiteUrl
      /\ web[t].found
      /\ web[t].status = "red"
      /\ web[t].res = Redirect(SiteUrl)
      /\ Store(web[t].store)[web[t].email].present
      /\ Store(web[t].store)[web[t].email].status = "red"
      /\ Store(web[t].store)[web[t].email].interact_count = web[t].count + 1

\* C14: the write of an open event that read the lead as gray with
\* opened_timestamp unset makes the lead yellow and sets opened_timestamp;
\* the write of an open event that read opened_timestamp as set leaves status
\* and opened_timestamp as they are.  Either write sets
\* last_interact_timestamp to the time of the event and interact_count to
\* the count read plus one: one more than the row holds, unless another
\* writer changed the count since the read.
C14_FirstAndLaterOpens ==
    [][\A t \in Threads :
         (Writes(t) /\ web[t].pc = "open_update")
           => LET c == web[t].store
                  e == web[t].email
                  old == Store(c)[e]
                  new == Store(c)'[e]
              IN old.present =>
                   /\ (web[t].opened = NULL /\ web[t].status = "gray")
                        => /\ new.status = "yellow"
                           /\ new.opened_timestamp \in web[t].t0 .. now
                   /\ web[t].opened # NULL
                        => /\ new.status = old.status
                           /\ new.opened_timestamp = old.opened_timestamp
                   /\ new.last_interact_timestamp \in web[t].t0 .. now
                   /\ new.interact_count = web[t].count + 1
                   /\ old.interact_count = web[t].count
                        => new.interact_count = old.interact_count + 1]_vars

\* a lead was opened twice: the second open read opened_timestamp as set,
\* and was served at a later time than the first; the lead is yellow, counts
\* two events and keeps the opened_timestamp of the first
C14_Witness ==
    \E t \in Threads :
      /\ web[t].pc = "idle"
      /\ web[t].req.endpoint = "track_open"
      /\ web[t].found
      /\ web[t].opened # NULL
      /\ web[t].count = 1
      /\ LET row == Store(web[t].store)[web[t].email] IN
         /\ row.present
         /\ row.status = "yellow"
         /\ row.interact_count = 2
         /\ row.opened_timestamp = web[t].opened
         /\ row.last_interact_timestamp > row.opened_timestamp

\* a load commits in this step: the import process ends its INSERTs, or a
\* row appears in the table
ImportCommits ==
    \/ imp.pc = "insert" /\ imp'.pc = "idle"
    \/ \E e \in Emails : ~leads[e].present /\ leads'[e].present

\* C15: a load leaves every lead that is in the table as it is - status,
\* interact_count, email_sent, timestamps (the table holds one row per email,
\* its primary key) - and a load of a file whose emails are all in the table
\* leaves the table as it is.
C15_ImportKeepsLeads ==
    [][ImportCommits =>
         /\ \A e \in Emails : leads[e].present => leads'[e] = leads[e]
         /\ (/\ imp.pc = "insert"
             /\ imp'.pc = "idle"
             /\ \A i \in DOMAIN imp.csv : leads[imp.csv[i]].present)
              => leads' = leads]_vars

\* main.py's load has ended for a file with an email that was in the table
\* when the load read it; that lead is not in the state a load creates
C15_Witness ==
    /\ imp.pc = "idle"
    /\ imp.result = "loaded"
    /\ \E i \in DOMAIN imp.csv :
         /\ imp.csv[i] \in imp.existing
         /\ leads[imp.csv[i]].present
         /\ leads[imp.csv[i]].status = "yellow"
         /\ leads[imp.csv[i]].interact_count = 1

\* C16: the request a lead makes by clicking a link of the email sent to it
\* for campaign C is served from C's table, and its write leaves the table of
\* every other campaign as it is.
C16_EventStaysInCampaign ==
    [][\A t \in Threads :
         (Writes(t) /\ web[t].origin # NoCampaign)
           => /\ web[t].store = web[t].origin
              /\ \A c \in Campaigns \ {web[t].origin} :
                   Store(c)' = Store(c)]_vars

\* t has answered the request web[t].req
Answered(t) == web[t].pc = "idle" /\ web[t].res # NoResponse

\* C17: every request to /track_open is answered with status 200 and the
\* 1x1 image, whatever its parameters and the tables hold.
C17_PixelAlways ==
    \A t \in Threads :
      (Answered(t) /\ web[t].req.endpoint = "track_open")
        => web[t].res = Pixel

\* C18: every request to /track_link that has a hash and a destination is
\* answered with a redirect to that destination.
C18_ClickAlwaysRedirects ==
    \A t \in Threads :
      (/\ Answered(t)
       /\ web[t].req.endpoint = "track_link"
       /\ web[t].req.hash # NoHash
       /\ web[t].req.url # NoUrl)
        => web[t].res = Redirect(web[t].req.url)

\* C19: a request to /track_link that lacks the hash or the destination is
\* answered 400 "Invalid request", and its handler opens no campaign's table
\* and ends without a read or a write.
C19_MalformedClickRejected ==
    \A t \in Threads :
      (/\ web[t].req.endpoint = "track_link"
       /\ (web[t].req.hash = NoHash \/ web[t].req.url = NoUrl))
        => /\ web[t].pc = "idle"
           /\ web[t].res = InvalidRequest
           /\ web[t].store = NoCampaign
           /\ ~web[t].found

\* a click with the hash of a lead of a configured campaign and no
\* destination was answered 400
C19_Witness ==
    \E t \in Threads, c \in Campaigns, e \in Emails :
      /\ web[t].pc = "idle"
      /\ web[t].req = Request("track_link", hash_email(e), NoUrl, c)
      /\ Store(c)[e].present
      /\ web[t].res = InvalidRequest
      /\ web[t].store = NoCampaign

\* C20: the response of track_open, track_link, /green and /red to a request
\* whose hash was looked up in a campaign's table is the same whether or not
\* a lead was found: it is the response the route gives when it finds one.
C20_ResponseHidesResolution ==
    \A t \in Threads :
      (/\ Answered(t)
       /\ web[t].req.endpoint \in Endpoints
       /\ web[t].store # NoCampaign)
        => web[t].res = FoundResponse(web[t].req)

\* C21: in every reachable state the status of every lead, in the table of
\* every campaign, is one of gray, yellow, green, blue, red.
C21_StatusInDomain ==
    \A c \in Campaigns, e \in Emails :
      Store(c)[e].present => Store(c)[e].status \in Statuses

\* C22: a move_lead request for a lead that is in the table of the campaign
\* it names sets the lead's status to the status of the form, whatever the
\* status was, and its timestamp to the time of the request, in one step;
\* every other field of the lead, every other lead and every other table
\* stay as they are.
C22_MoveSetsStatusAndStamp ==
    [][\A e \in TrackEmails, st \in MoveStatuses, a \in MoveArgs :
         (FormCampaign(a) \in Campaigns /\ MoveLeadRequest(e, st, a))
           => LET c == FormCampaign(a) IN
              /\ Store(c)[e].present
                   => Store(c)'[e] = [Store(c)[e] EXCEPT !.status = st,
                                                         !.timestamp = now]
              /\ \A d \in Campaigns, f \in Emails :
                   (d # c \/ f # e) => Store(d)'[f] = Store(d)[f]]_vars

\* a lead that had opened its email was moved back to gray at a later time:
\* it keeps its opened_timestamp and its interact_count
C22_Witness ==
    \E e \in Emails :
      /\ admin.res = Redirect(DashboardUrl(DefaultCampaign))
      /\ leads[e].present
      /\ leads[e].status = "gray"
      /\ leads[e].opened_timestamp # NULL
      /\ leads[e].interact_count = 1
      /\ leads[e].timestamp > leads[e].opened_timestamp

\* the operator's transaction ends in this step
AdminEnds == admin.pc # "idle" /\ admin'.pc = "idle"

\* C23: delete_lead removes the lead and its lead_details rows in one step:
\* no step takes a lead out of a table and leaves a lead_details row of its
\* email; when the delete has committed, the table holds neither the lead
\* nor a lead_details row of its email; and when the store fails during the
\* delete, the tables are left as they are, with the lead and the
\* lead_details rows the transaction found when it began.
C23_DeleteIsAtomic ==
    [][/\ \A c \in Campaigns, e \in Emails :
            (Store(c)[e].present /\ ~Store(c)'[e].present)
              => DetailsOf(c, e)' = {}
       /\ (AdminEnds /\ admin'.outcome = "deleted")
            => /\ ~Store(admin.campaign)'[admin.email].present
               /\ DetailsOf(admin.campaign, admin.email)' = {}
       /\ (AdminEnds /\ admin'.outcome = "rolled back")
            => /\ leads' = leads
               /\ other' = other
               /\ details' = details
               /\ admin.pc = "delete_details"
                    => /\ Store(admin.campaign)'[admin.email]
                            = admin.before.lead
                       /\ DetailsOf(admin.campaign, admin.email)'
                            = admin.before.details]_vars

\* the store failed after the first DELETE of a lead that has lead_details
\* rows: the lead and the rows are in the tables as the transaction found
\* them
C23_Witness ==
    /\ admin.pc = "idle"
    /\ admin.outcome = "rolled back"
    /\ admin.before.lead.present
    /\ admin.before.details # {}
    /\ Store(admin.campaign)[admin.email] = admin.before.lead
    /\ DetailsOf(admin.campaign, admin.email) = admin.before.details

\* C24: when the process has aborted at start-up for a missing secret
\* (SMTP_PASSWORD, DASHBOARD_PASSWORD), every campaign's database file is as
\* the process found it: no table created, no column added, no row changed.
C24_AbortLeavesStores ==
    boot.pc = "aborted" =>
      \A c \in Campaigns :
        /\ schema[c] = boot.found[c].schema
        /\ Store(c) = boot.found[c].rows

\* C25: a tracking event sent while a dispatcher run is in progress is
\* eventually handled by the server, whether or not that run ends.
C25_EventServedDuringRun ==
    (client = "sent") ~> (client = "handled")

\* C26: in every campaign's table that init_db has been run on, the stored
\* hash of every lead is hash_email of its email, so the lookup by stored
\* hash and the lookup by recomputed hash find the same leads for a token.
C26_StoredHashIsToken ==
    \A c \in Campaigns :
      schema[c] = "current" =>
        \A e \in Emails :
          /\ Store(c)[e].present => Store(c)[e].hash = hash_email(e)
          /\ RowsByHashIn(c, hash_email(e))
               = RowsByComputedHashIn(c, hash_email(e))

\* C27: the write of a click on a link that is not the marker link, by a
\* lead that track_link read as blue and that is blue, leaves the status
\* blue and changes interact_count and last_interact_timestamp only.
C27_BlueLeadClickStaysBlue ==
    [][\A t \in Threads :
         (http[t].pc = "link_update" /\ http[t].dest = "generic"
            /\ http'[t].pc = "idle")
           => LET e == http[t].email IN
              (leads[e].present /\ leads[e].status = "blue"
                 /\ http[t].status = "blue")
                => /\ leads'[e].status = "blue"
                   /\ leads'[e] =
                        [leads[e] EXCEPT
                           !.interact_count = leads'[e].interact_count,
                           !.last_interact_timestamp =
                             leads'[e].last_interact_timestamp]]_vars

\* C28: a step that makes a lead green or red is the write of a click on
\* the marker link, the write of /green or /red, or a manual move: the
\* write of a pixel open or of a click on any other destination never is.
C28_DecidedOnlyByExplicitAction ==
    [][\A c \in Campaigns, e \in Emails :
         (/\ Store(c)'[e].present
          /\ Store(c)'[e].status \in {"green", "red"}
          /\ Store(c)'[e].status # Store(c)[e].status)
           => \/ \E t \in Threads :
                   /\ Writes(t)
                   /\ web[t].store = c
                   /\ web[t].email = e
                   /\ \/ web[t].pc = "colour_update"
                      \/ /\ web[t].pc = "link_update"
                         /\ web[t].req.url.path = "green"
                         /\ web[t].req.url.campaign = c
              \/ c = DefaultCampaign /\ \E st \in MoveInputs : MoveLead(e, st)
              \/ \E st \in FormStatuses, a \in CampaignArgs :
                   MoveLeadRequest(e, st, a)]_vars

\* a pixel open and a click on the company link of the same lead have been
\* served, and the lead is yellow
C28_Witness ==
    \E t, u \in Threads, e \in Emails :
      /\ Answered(t) /\ web[t].req.endpoint = "track_open"
      /\ web[t].found /\ web[t].email = e
      /\ Answered(u) /\ web[u].req.endpoint = "track_link"
      /\ web[u].req.url = SiteUrl
      /\ web[u].found /\ web[u].email = e
      /\ leads[e].present
      /\ leads[e].status = "yellow"
      /\ leads[e].interact_count > 1

\* C29: the write that ends a send attempt to a lead that is in the table
\* sets email_sent to the attempt's outcome, which send_email returns as its
\* value: 1 and True after the transport took the message, 0 and False after
\* a transport error or an attachment that is too large.
C29_SentFlagIsOutcome ==
    [][\A r \in Runners :
         SendWrites(r) =>
           LET e == disp[r].email IN
           leads[e].present =>
             leads'[e].email_sent = IF disp'[r].ret THEN 1 ELSE 0]_vars

\* a send to a lead failed and a later send to it succeeded: email_sent is 1
C29_Witness ==
    \E r \in Runners :
      LET e == disp[r].email IN
      /\ e \in disp[r].failed
      /\ e \in disp[r].succeeded
      /\ disp[r].ret
      /\ leads[e].present
      /\ leads[e].email_sent = 1

\* C30: the write that ends a send attempt, successful or not, leaves the
\* status of the lead as it is.
C30_SendKeepsStatus ==
    [][\A r \in Runners :
         SendWrites(r) =>
           LET e == disp[r].email IN
           leads[e].present => leads'[e].status = leads[e].status]_vars

\* a send to a lead read as gray succeeded after the lead had opened an
\* earlier email: the lead is yellow and marked as sent
C30_Witness ==
    \E r \in Runners :
      LET e == disp[r].email IN
      /\ disp[r].ret
      /\ disp[r].status = "gray"
      /\ leads[e].present
      /\ leads[e].status = "yellow"
      /\ leads[e].email_sent = 1

\* C31: the timestamp of a lead is the time of its creation or of its most
\* recent status change: every step that changes the status of a lead
\* (open, click, /green, /red, manual move) stamps timestamp with the
\* current time in the same update.
C31_StatusChangeStamps ==
    [][\A e \in Emails :
         (leads[e].present /\ leads'[e].present
            /\ leads'[e].status # leads[e].status)
           => leads'[e].timestamp = now]_vars

\* C32: last_interact_timestamp of a lead is the time of its most recent
\* accepted tracking event: it is unset at import and a step changes it only
\* by committing a tracking event of that lead - no send, manual operation
\* or store initialization does.
C32_LastInteractIsLastEvent ==
    [][\A e \in Emails :
         (leads[e].present /\ leads'[e].present
            /\ leads'[e].last_interact_timestamp
                 # leads[e].last_interact_timestamp)
           => accepted'[e] = accepted[e] + 1]_vars

\* C33: init_db against an existing store is idempotent and keeps the data:
\* it removes no lead, leaves every field value already stored unchanged,
\* and a second run gives the store the first run gave.
C33_InitDbKeepsStore ==
    [][\A c \in Campaigns :
         (boot.pc = "init_db" /\ c \in boot.todo /\ c \notin boot'.todo)
           => /\ \A e \in Emails :
                   (Store(c)[e].present /\ schema[c] = "current")
                     => Store(c)'[e] = Store(c)[e]
              /\ InitDbRows(Store(c)', now) = Store(c)']_vars

\* C34: between two consecutive send attempts of a run the dispatcher waits
\* the campaign's delay: when send_email has written the outcome of an
\* attempt, succeeded or failed, and the run goes on, the dispatcher's next
\* step is the sleep.
C34_DelayAfterEveryAttempt ==
    [][\A r \in Runners :
         (SendWrites(r)
            /\ AfterLead(disp[r].variant, disp[r].todo) # "done")
           => disp'[r].pc = "sleep"]_vars

\* C35: a send whose transport call hangs eventually ends (as a failed
\* send), so that the dispatcher goes on to the remaining leads.
C35_HungSendEnds ==
    \A r \in Runners : (disp[r].pc = "blocked") ~> (disp[r].pc # "blocked")

\* C36: the notes of a lead change only through update_notes - no open,
\* click, /green, /red, send, manual move, re-import or store
\* initialization changes them - and update_notes changes no other field.
C36_NotesOnlyByUpdateNotes ==
    [][\A e \in Emails :
         (leads[e].present /\ leads'[e].present /\ leads'[e] # leads[e])
           => IF \E n \in Notes : UpdateNotes(e, n)
                THEN leads'[e] = [leads[e] EXCEPT !.notes = leads'[e].notes]
                ELSE leads'[e].notes = leads[e].notes]_vars

\* an annotated lead that has since been sent to, has opened, clicked and
\* answered, and has been loaded again
C36_Witness ==
    \E e \in TrackEmails :
      /\ leads[e].present
      /\ leads[e].notes \in Notes
      /\ leads[e].email_sent = 1
      /\ leads[e].opened_timestamp # NULL
      /\ leads[e].status = "green"
      /\ leads[e].interact_count >= 3
      /\ imp.result = "loaded" /\ e \in imp.existing

\* C37: a message is handed to the mail transport only by a send_email that
\* read the lead's status as gray: a lead that an open or a click moved to
\* yellow after the eligibility snapshot is not emailed in that run.
C37_SendOnlyToGray ==
    \A m \in outbox : m[2] = "gray"

\* C38: a lead is successfully transmitted the campaign email at most once
\* while no operator resets it, in any interleaving of dispatcher runs on
\* the campaign: a transmission succeeds only for a lead that no earlier
\* transmission has marked as sent.
C38_TransmittedAtMostOnce ==
    [][\A r \in Dispatchers :
         (SendWrites(r) /\ disp'[r].ret)
           => leads[disp[r].email].email_sent = 0]_vars

\* C39: no automated event (open, click, /green, /red, send success or
\* failure) sets the status of a lead to gray or to blue: a step that takes
\* a lead into gray or into blue is a manual move.
C39_GrayAndBlueOnlyByMove ==
    [][\A e \in Emails :
         (leads[e].present /\ leads'[e].present
            /\ leads'[e].status \in {"gray", "blue"}
            /\ leads'[e].status # leads[e].status)
           => \E st \in {"gray", "blue"} : MoveLead(e, st)]_vars

\* a lead that was sent to, opened and clicked, and that the operator then
\* filed as manually contacted
C39_Witness ==
    \E e \in TrackEmails :
      /\ leads[e].present
      /\ leads[e].status = "blue"
      /\ leads[e].email_sent = 1
      /\ leads[e].opened_timestamp # NULL
      /\ accepted[e] >= 2
====
